---- MODULE Spec2Model ----
(***************************************************************************)
(* Voice-to-MIDI workstation (src/App.tsx, src/services/pitchDetection.ts) *)
(*                                                                         *)
(* The model covers the note-event tracker inside audioLoop, the recording *)
(* segmenter (toggleRecording plus the two closing paths of audioLoop),    *)
(* the React state the handlers write, and stateRef, the snapshot of that  *)
(* state which audioLoop reads and which a useEffect refreshes after a     *)
(* render.                                                                 *)
(*                                                                         *)
(* Units.  Time (Tone.now()) is counted in hundredths of a second.         *)
(* sensitivity is counted in thousandths (the slider step, 0.001),         *)
(* micBoost in halves (the slider step, 0.5) and the raw rms of a frame    *)
(* in units of 0.002, so that  rms = level * micBoost  is in thousandths   *)
(* too and compares with sensitivity directly.                             *)
(*                                                                         *)
(* Optional values (number | null, object | null) are sequences of length  *)
(* at most one: <<>> is null and <<v>> is the value v.                     *)
(***************************************************************************)
EXTENDS Integers, Sequences, FiniteSets, TLC

VARIABLES
    mode,                   \* useState<WorkstationMode>
    isRecording,            \* useState(false)
    isPlayingBack,          \* useState<string | null>
    currentMidiNote,        \* useState<number | null>
    sensitivity,            \* useState(0.015)
    micBoost,               \* useState(2.5)
    sessions,               \* useState<StudioSession[]>, newest first
    stateRef,               \* useRef snapshot read by audioLoop
    recordingNotesRef,      \* useRef<RecordedNote[]>
    recordingStartTimeRef,  \* useRef<number>
    activeNoteStartRef,     \* useRef<{note,start,time} | null>
    stopPending,            \* a toggleRecording call is suspended at `await recorder.stop()`
    timers,                 \* pending setTimeout callbacks of playSessionMidi
    sounding,               \* synth voices started by audioLoop and not yet released
    now,                    \* Tone.now()
    releasedAt,             \* when audioLoop released the voice of the open note and left the note open
    last,                   \* what the most recent handler did: the events of an audioLoop run
    buffer,                 \* the frame handed to detectPitch
    sampleRate,             \* the sample rate handed to detectPitch
    pitch,                  \* what detectPitch returned for that frame
    midiCall,               \* a call of frequencyToMidi: its argument and what it returned
    nameCall,               \* a call of midiToNoteName: its argument and what it returned
    runs,                   \* two runs of the head of audioLoop side by side: meter, frame level, gate decision
    loop,                   \* the setup screen and the calls of audioLoop that are due
    variants                \* the recording state of the three variants of the driver loop, fed the same ticks

vars == <<mode, isRecording, isPlayingBack, currentMidiNote, sensitivity, micBoost,
          sessions, stateRef, recordingNotesRef, recordingStartTimeRef,
          activeNoteStartRef, stopPending, timers, sounding, now, releasedAt, last,
          buffer, sampleRate, pitch, midiCall, nameCall, runs, loop, variants>>

----------------------------------------------------------------------------
(* Bounds of the model *)

MaxTime == 10
MaxSessions == 1
MaxTimers == 1
MaxVoices == 2
MaxFrameLen == 8
MaxMidi == 72
MaxSetups == 2
MaxNotes == 2

(* Program constants *)

MIN_NOTE_DURATION == 5

IDLE == "IDLE"
MIDI == "MIDI"
VOICE == "VOICE"
RECORD == "RECORD"
WorkstationMode == {IDLE, MIDI, VOICE, RECORD}

(* Inputs *)

\* detectPitch results offered to a tick: null, or a frequency in Hz
Frequencies == {262, 440}
\* raw rms of a frame, in units of 0.002
Levels == {0, 3, 5}
\* sample values of the short frames handed to detectPitch
SampleValues == {-1, 0, 1}
\* a tone of about thirteen samples per period with noise on it, forty samples
\* in units of 1/16
NoisyTone == << 8,  7,  3,  1,  1, -7, -4, -8, -6, -6,
                0, -1,  6,  6,  6,  6,  5,  0, -1, -4,
               -6, -8, -4, -5,  0,  2,  7,  6,  5,  4,
                4,  0,  0, -4, -10, -4, -10, -2,  1,  3>>
\* frames handed to detectPitch: every frame of up to MaxFrameLen samples over
\* SampleValues, the all-zero frames among them, and the noisy tone
FrameInputs ==
    UNION {[1..k -> SampleValues] : k \in 0..MaxFrameLen} \cup {NoisyTone}
\* Tone.getContext().sampleRate
SampleRates == {44100, 48000}
\* arguments offered to midiToNoteName
MidiInputs == (-MaxMidi)..MaxMidi
\* slider positions offered to the settings handlers
SensitivityValues == {10, 15}
MicBoostValues == {2, 5}
\* the amounts of time, in hundredths of a second, that pass between two handlers
ClockSteps == {3, 5}

Null == <<>>
Some(v) == <<v>>
IsNull(o) == o = <<>>
Val(o) == o[1]

----------------------------------------------------------------------------
(* src/services/pitchDetection.ts *)

\* Samples are integers: detectPitch sees a frame only through ratios of sums
\* of squared differences, so a frame and its multiple by a constant give the
\* same result, and an integer frame stands for the frame of its samples
\* divided by a power of two.
\*
\* yinBuffer is a Float32Array (line 9), so each entry is kept to about seven
\* digits.  The model keeps an entry to six decimals, rounded down.
Scale == 10 ^ 6

\* floor(10^k * r / q) for 0 <= r < q, digit by digit
RECURSIVE Decimals(_, _, _)
Decimals(r, q, k) ==
    IF k = 0 THEN 0
    ELSE ((10 * r) \div q) * 10 ^ (k - 1) + Decimals((10 * r) % q, q, k - 1)

\* floor(Scale * p / q) for p >= 0, q > 0
Stored(p, q) == (p \div q) * Scale + Decimals(p % q, q, 6)

\* lines 13-16: the inner loop, delta * delta summed over i < floor(SIZE / 2)
RECURSIVE SquaredDeltas(_, _, _)
SquaredDeltas(buf, tau, i) ==
    IF i = 0 THEN 0
    ELSE LET delta == buf[i] - buf[i + tau]
         IN  delta * delta + SquaredDeltas(buf, tau, i - 1)

\* lines 12-17: yinBuffer[tau] after the difference function
Difference(buf, tau) == SquaredDeltas(buf, tau, Len(buf) \div 2)

\* lines 21-23: runningSum after the iteration for tau
RECURSIVE RunningSum(_, _)
RunningSum(buf, tau) ==
    IF tau = 0 THEN 0 ELSE Difference(buf, tau) + RunningSum(buf, tau - 1)

\* line 24: runningSum || 1
OrOne(runningSum) == IF runningSum = 0 THEN 1 ELSE runningSum

\* lines 20-25: yinBuffer after the cumulative mean normalisation, as a
\* function on the lags 0 .. floor(SIZE / 2) - 1
NormalisedDifference(buf) ==
    [tau \in 0..((Len(buf) \div 2) - 1) |->
        IF tau = 0 THEN Scale
        ELSE Stored(tau * Difference(buf, tau), OrOne(RunningSum(buf, tau)))]

\* line 7 and line 30: yinBuffer[t] < 0.15
BelowThreshold(y) == 100 * y < 15 * Scale

\* line 45: minVal > 0.4.  minVal is read back from the Float32Array, in which
\* 0.4 is stored as 0.4000000059604645: an entry whose value is 0.4 or more
\* compares greater than the double 0.4.
AboveLimit(y) == 10 * y >= 4 * Scale

\* the least element of a non-empty set of integers
Least(S) == CHOOSE t \in S : \A u \in S : t <= u

\* lines 28-34: the first lag under the threshold, -1 when there is none
ThresholdLag(yinBuffer) ==
    LET under == {t \in DOMAIN yinBuffer : t >= 1 /\ BelowThreshold(yinBuffer[t])}
    IN  IF under = {} THEN -1 ELSE Least(under)

\* lines 38-44: minVal after the loop that starts from minVal = 1
MinVal(yinBuffer) ==
    LET vals == {yinBuffer[t] : t \in (DOMAIN yinBuffer) \ {0}} \cup {Scale}
    IN  Least(vals)

\* lines 38-44: the first lag whose entry is under every entry before it and
\* under 1, -1 when no entry is under 1
MinimumLag(yinBuffer) ==
    LET at == {t \in DOMAIN yinBuffer :
                  t >= 1 /\ yinBuffer[t] < Scale /\ yinBuffer[t] = MinVal(yinBuffer)}
    IN  IF at = {} THEN -1 ELSE Least(at)

\* a refinement applied to lags of the threshold search only: a lag of the
\* fallback is returned as it is
RefinedOnThresholdOnly(yinBuffer, tau, path, rate) ==
    LET last1 == Cardinality(DOMAIN yinBuffer) - 1
        denominator == 2 * (2 * yinBuffer[tau] - yinBuffer[tau + 1] - yinBuffer[tau - 1])
    IN  IF tau <= 0 THEN Null
        ELSE IF path = "threshold" /\ tau < last1 /\ denominator # 0
             THEN Some([tau |-> tau, path |-> path, interpolated |-> TRUE,
                        rate |-> rate,
                        num |-> tau * denominator + (yinBuffer[tau + 1] - yinBuffer[tau - 1]),
                        den |-> denominator])
             ELSE Some([tau |-> tau, path |-> path, interpolated |-> FALSE,
                        rate |-> rate, num |-> tau, den |-> 1])

\* lines 49-60: the value returned for the chosen lag.  The frequency is
\* rate / (num / den): num / den is betterTau after the interpolation and
\* tau / 1 without it.
Refined(yinBuffer, tau, path, rate) ==
    LET last1 == Cardinality(DOMAIN yinBuffer) - 1
    IN  IF tau > 0 /\ tau < last1
        THEN LET s0 == yinBuffer[tau - 1]
                 s1 == yinBuffer[tau]
                 s2 == yinBuffer[tau + 1]
                 denominator == 2 * (2 * s1 - s2 - s0)
             IN  IF denominator # 0
                 THEN Some([tau |-> tau, path |-> path, interpolated |-> TRUE,
                            rate |-> rate,
                            num |-> tau * denominator + (s2 - s0),
                            den |-> denominator])
                 ELSE Some([tau |-> tau, path |-> path, interpolated |-> FALSE,
                            rate |-> rate, num |-> tau, den |-> 1])
        ELSE IF tau > 0
             THEN Some([tau |-> tau, path |-> path, interpolated |-> FALSE,
                        rate |-> rate, num |-> tau, den |-> 1])
             ELSE Null

\* lines 6-61
detectPitch(buf, rate) ==
    LET yinBuffer == NormalisedDifference(buf)
        tau == ThresholdLag(yinBuffer)
    IN  IF tau # -1 THEN Refined(yinBuffer, tau, "threshold", rate)
        ELSE IF AboveLimit(MinVal(yinBuffer)) THEN Null
        ELSE Refined(yinBuffer, MinimumLag(yinBuffer), "fallback", rate)

\* 2^((k + 1/2)/12) * 10000 for k = 0..11: the upper edge of semitone k above
\* a reference, to four decimals.  Math.round takes the half up, so a ratio at
\* or above the edge belongs to the next semitone.
SemitoneEdge == <<10293, 10905, 11554, 12241, 12968, 13740,
                  14557, 15422, 16339, 17311, 18340, 19431>>

\* Math.round(12 * Math.log2(r)) for a ratio 1 <= r < 2 given as floor(10000*r)
RECURSIVE SemitoneOf(_, _)
SemitoneOf(r10k, k) ==
    IF k > 11 THEN 12
    ELSE IF r10k < SemitoneEdge[k + 1] THEN k
    ELSE SemitoneOf(r10k, k + 1)

\* Math.round(12 * Math.log2(num / den)) for num, den > 0, by octave reduction
RECURSIVE RoundSemitones(_, _)
RoundSemitones(num, den) ==
    IF num < den THEN RoundSemitones(2 * num, den) - 12
    ELSE IF num >= 2 * den THEN RoundSemitones(num, 2 * den) + 12
    ELSE SemitoneOf((num * 10000) \div den, 0)

frequencyToMidi(frequency) ==
    IF frequency <= 0 THEN 0
    ELSE 69 + RoundSemitones(frequency, 440)

\* the remainder of JavaScript's % operator (sign of the dividend)
JsRem(a, b) == IF a >= 0 THEN a % b ELSE -((-a) % b)

NoteNames == <<"C", "C#", "D", "D#", "E", "F", "F#", "G", "G#", "A", "A#", "B">>

\* an octave computed by cutting the quotient off towards zero (m / 12 | 0)
midiToNoteNameTruncated(midi) ==
    LET octave == (IF midi >= 0 THEN midi \div 12 ELSE -((-midi) \div 12)) - 1
        noteIndex == (JsRem(midi, 12) + 12) % 12
    IN  NoteNames[noteIndex + 1] \o ToString(octave)

\* a label that names the pitch class alone
midiToNoteNameOfClass(midi) ==
    LET noteIndex == (JsRem(midi, 12) + 12) % 12
    IN  NoteNames[noteIndex + 1]

midiToNoteName(midi) ==
    LET octave == (midi \div 12) - 1
        noteIndex == (JsRem(midi, 12) + 12) % 12
    IN  NoteNames[noteIndex + 1] \o ToString(octave)

----------------------------------------------------------------------------
(* src/App.tsx: state *)

\* the object the useEffect of lines 87-91 stores in stateRef.current
Snapshot ==
    [mode |-> mode,
     isPlayingBack |-> ~IsNull(isPlayingBack),
     lastMidi |-> currentMidiNote,
     sensitivity |-> sensitivity, micBoost |-> micBoost]

\* before the first tick: useState(0) for rmsVolume
NoRuns == [r \in 1..2 |-> [rmsVolume |-> 0, level |-> 0, armed |-> FALSE]]

\* frequencyToMidi and midiToNoteName have not been called
NoMidiCall == [called |-> FALSE, frequency |-> Null, returned |-> Null]
NoNameCall == [called |-> FALSE, midi |-> 0, returned |-> ""]

\* no frame has been handed to detectPitch
NotCalled == [called |-> FALSE, threw |-> FALSE, value |-> Null]

\* `last` after a handler that is neither audioLoop nor the end of a stop, and
\* after a silent audioLoop run
NoTick == [op |-> "none", midi |-> Null, rms |-> 0, events |-> <<>>, closed |-> Null]


\* the three copies of the driver loop kept in the source tree
Variants == {"App", "part_001", "part_000"}

\* useRef initial values of each variant, with lastMidi of its stateRef and the
\* midiNotes of its newest session (null while it has none); the audio clock,
\* isRecording and recordingStartTimeRef take the same values in all three
NoVariants ==
    [clock |-> 0, isRecording |-> FALSE, recordingStartTimeRef |-> 0,
     of |-> [v \in Variants |->
                [lastMidi |-> Null, activeNoteStartRef |-> Null,
                 recordingNotesRef |-> <<>>, midiNotes |-> Null]]]

\* lines 18-20 and the refs of lines 104-131 on the landing screen: nothing is
\* shown but ENTER STUDIO, no audio core exists and no run of audioLoop is due
Landing == [isStarted |-> FALSE, isConfiguring |-> FALSE, setupStep |-> "PERMISSION",
            core |-> FALSE, awaiting |-> FALSE, setups |-> 0, pending |-> 0,
            frame |-> 0]

\* the same after one setup that succeeded and a press of Start Experience
\* (lines 188-194 and 314): the studio is shown and one callback is queued
StudioEntered == [isStarted |-> TRUE, isConfiguring |-> FALSE, setupStep |-> "COMPLETE",
                  core |-> TRUE, awaiting |-> FALSE, setups |-> 1, pending |-> 1,
                  frame |-> 0]

Release(note) == [kind |-> "release", note |-> note]
Attack(note) == [kind |-> "attack", note |-> note]

Init ==
    /\ mode = IDLE
    /\ isRecording = FALSE
    /\ isPlayingBack = Null
    /\ currentMidiNote = Null
    /\ sensitivity = 15
    /\ micBoost = 5
    /\ sessions = <<>>
    /\ stateRef = [mode |-> IDLE, isPlayingBack |-> FALSE,
                   lastMidi |-> Null, sensitivity |-> 15, micBoost |-> 5]
    /\ recordingNotesRef = <<>>
    /\ recordingStartTimeRef = 0
    /\ activeNoteStartRef = Null
    /\ stopPending = FALSE
    /\ timers = 0
    /\ sounding = <<>>
    /\ now = 0
    /\ releasedAt = Null
    /\ last = NoTick
    /\ buffer = <<>>
    /\ sampleRate = 0
    /\ pitch = NotCalled
    /\ midiCall = NoMidiCall
    /\ nameCall = NoNameCall
    /\ runs = NoRuns
    /\ loop = StudioEntered
    /\ variants = NoVariants

----------------------------------------------------------------------------
(* the synthesizer voices audioLoop starts and stops *)

\* synth.triggerRelease(note): the first sounding voice of that note stops
RECURSIVE RemoveFirst(_, _)
RemoveFirst(seq, x) ==
    IF seq = <<>> THEN <<>>
    ELSE IF Head(seq) = x THEN Tail(seq)
    ELSE <<Head(seq)>> \o RemoveFirst(Tail(seq), x)

\* the voices left after the events of one tick, in order
RECURSIVE Apply(_, _)
Apply(voices, events) ==
    IF events = <<>> THEN voices
    ELSE IF Head(events).kind = "attack"
         THEN Apply(Append(voices, Head(events).note), Tail(events))
         ELSE Apply(RemoveFirst(voices, Head(events).note), Tail(events))

----------------------------------------------------------------------------
(* src/App.tsx: audioLoop, one run per animation frame *)

\* lines 136-141: rms of the gain-boosted frame
BoostedRms(level) == level * stateRef.micBoost

\* line 142: setRmsVolume(prev => prev * 0.7 + rms * 0.3), kept to thousandths
Smoothed(prev, rms) == (7 * prev + 3 * rms) \div 10

\* a gate that also opens at the threshold itself
ArmedAtThreshold(rms) ==
    rms >= stateRef.sensitivity /\ (stateRef.mode = MIDI \/ stateRef.mode = RECORD)

\* lines 149-152: the gate
IsMidiActive == stateRef.mode = MIDI \/ stateRef.mode = RECORD
Armed(rms) == rms > stateRef.sensitivity /\ IsMidiActive

\* a gate that compares the smoothed level with the sensitivity
GateOnMeter(level, rmsVolume) ==
    ~stateRef.isPlayingBack /\ Armed(Smoothed(rmsVolume, BoostedRms(level)))

\* lines 144-152: whether a tick with this frame level goes on to detectPitch.
\* rmsVolume is the meter value the tick finds; the code does not read it.
GateDecision(level, rmsVolume) ==
    ~stateRef.isPlayingBack /\ Armed(BoostedRms(level))

\* line 154: freq ? frequencyToMidi(freq) : null
Quantise(freq) ==
    IF IsNull(freq) \/ Val(freq) = 0 THEN Null ELSE Some(frequencyToMidi(Val(freq)))

\* line 156: the pitch-change test
PitchChanged(midi) == ~IsNull(midi) /\ midi # stateRef.lastMidi

\* a filter that drops a note of exactly the minimum duration
KeepLongerNote(duration) == duration > MIN_NOTE_DURATION

\* lines 161-162 and 177-178: the duration of the open note and the filter
OpenDuration == now - recordingStartTimeRef - Val(activeNoteStartRef).start
KeepNote(duration) == duration >= MIN_NOTE_DURATION

\* lines 160-165 and 176-180: the note list after a release in RECORD mode
ClosedNotes ==
    IF stateRef.mode = RECORD /\ ~IsNull(activeNoteStartRef) /\ KeepNote(OpenDuration)
    THEN Append(recordingNotesRef,
                [note |-> Val(activeNoteStartRef).note,
                 time |-> Val(activeNoteStartRef).time,
                 duration |-> OpenDuration])
    ELSE recordingNotesRef

\* what a closing path did with the open note: null when it had none to close
Closing ==
    IF stateRef.mode = RECORD /\ ~IsNull(activeNoteStartRef)
    THEN Some([duration |-> OpenDuration, pushed |-> ClosedNotes # recordingNotesRef])
    ELSE Null

\* a pitch-change branch that attacks the new note before it releases the old one
AttackFirstEvents(midi) ==
    <<Attack(midiToNoteName(Val(midi)))>>
    \o (IF ~IsNull(stateRef.lastMidi)
        THEN <<Release(midiToNoteName(Val(stateRef.lastMidi)))>> ELSE <<>>)

\* lines 158-167: the events of the pitch-change branch
ChangeEvents(midi) ==
    (IF ~IsNull(stateRef.lastMidi)
     THEN <<Release(midiToNoteName(Val(stateRef.lastMidi)))>> ELSE <<>>)
    \o <<Attack(midiToNoteName(Val(midi)))>>

\* an open note that is stamped with the start of the recording instead of
\* the time of its attack
OpenedAtRecordingStart(midi) ==
    IF stateRef.mode = RECORD
    THEN Some([note |-> midiToNoteName(Val(midi)), start |-> 0, time |-> 0])
    ELSE activeNoteStartRef

\* lines 169-172: the open note after an attack
OpenedNote(midi) ==
    IF stateRef.mode = RECORD
    THEN Some([note |-> midiToNoteName(Val(midi)),
               start |-> now - recordingStartTimeRef,
               time |-> now - recordingStartTimeRef])
    ELSE activeNoteStartRef

\* lines 159 and 175: triggerRelease of the voice of a note that stays open
ReleasedOpenNote(label) ==
    IF /\ ~IsNull(activeNoteStartRef)
       /\ Val(activeNoteStartRef).note = label
       /\ IsNull(releasedAt)
    THEN Some(now) ELSE releasedAt

\* a run during playback that gives up the held index
AudioLoopPlaybackClearing(level) ==
    /\ stateRef.isPlayingBack
    /\ last' = [NoTick EXCEPT !.op = "playback"]
    /\ currentMidiNote' = Null
    /\ UNCHANGED <<recordingNotesRef, activeNoteStartRef, sounding, releasedAt>>

\* lines 144-147: playback in progress, the frame is only metered
AudioLoopPlayback(level) ==
    /\ stateRef.isPlayingBack
    /\ last' = [NoTick EXCEPT !.op = "playback"]
    /\ UNCHANGED <<currentMidiNote, recordingNotesRef, activeNoteStartRef, sounding,
                   releasedAt>>

\* lines 152-173: armed
AudioLoopArmed(level, freq) ==
    LET rms == BoostedRms(level)
        midi == Quantise(freq)
    IN  /\ ~stateRef.isPlayingBack
        /\ Armed(rms)
        /\ IF PitchChanged(midi)
           THEN /\ Len(Apply(sounding, ChangeEvents(midi))) <= MaxVoices
                /\ recordingNotesRef' =
                       IF ~IsNull(stateRef.lastMidi) THEN ClosedNotes ELSE recordingNotesRef
                /\ sounding' = Apply(sounding, ChangeEvents(midi))
                /\ currentMidiNote' = midi
                /\ activeNoteStartRef' = OpenedNote(midi)
                /\ releasedAt' =
                       IF stateRef.mode = RECORD THEN Null
                       ELSE IF ~IsNull(stateRef.lastMidi)
                            THEN ReleasedOpenNote(midiToNoteName(Val(stateRef.lastMidi)))
                            ELSE releasedAt
                /\ last' = [op |-> "armed", midi |-> midi, rms |-> rms,
                            events |-> ChangeEvents(midi),
                            closed |-> IF ~IsNull(stateRef.lastMidi) THEN Closing ELSE Null]
           ELSE /\ last' = [NoTick EXCEPT !.op = "armed", !.midi = midi]
                /\ UNCHANGED <<currentMidiNote, recordingNotesRef, activeNoteStartRef,
                               sounding, releasedAt>>

\* lines 174-184: not armed
AudioLoopDisarmed(level) ==
    LET rms == BoostedRms(level)
    IN  /\ ~stateRef.isPlayingBack
        /\ ~Armed(rms)
        /\ IF ~IsNull(stateRef.lastMidi)
           THEN LET events == <<Release(midiToNoteName(Val(stateRef.lastMidi)))>>
                IN  /\ sounding' = Apply(sounding, events)
                    /\ recordingNotesRef' = ClosedNotes
                    /\ activeNoteStartRef' =
                           IF stateRef.mode = RECORD /\ ~IsNull(activeNoteStartRef)
                           THEN Null ELSE activeNoteStartRef
                    /\ releasedAt' =
                           IF stateRef.mode = RECORD /\ ~IsNull(activeNoteStartRef)
                           THEN Null
                           ELSE ReleasedOpenNote(midiToNoteName(Val(stateRef.lastMidi)))
                    /\ currentMidiNote' = Null
                    /\ last' = [op |-> "disarmed", midi |-> Null, rms |-> 0,
                                events |-> events, closed |-> Closing]
           ELSE /\ last' = [NoTick EXCEPT !.op = "disarmed"]
                /\ UNCHANGED <<currentMidiNote, recordingNotesRef, activeNoteStartRef,
                               sounding, releasedAt>>

\* a newest session that holds the live note list itself instead of a copy
SharedNoteList ==
    IF ~isRecording /\ sessions # <<>>
    THEN [sessions EXCEPT ![1].midiNotes = recordingNotesRef']
    ELSE sessions

\* line 223: a session holds a copy of the note list ([...recordingNotesRef.current]),
\* so the push of lines 163 and 179 does not reach the sessions
SessionsAfterPush == sessions

\* the branches of a run of audioLoop past line 134
Branches == {"playback", "armed", "disarmed"}

\* a loop whose runs during playback return without asking for a successor
ScheduledUnlessPlayback(branch) == IF branch = "playback" THEN 0 ELSE 1

\* lines 145 and 185: the calls of requestAnimationFrame(audioLoop) made by a
\* run on the given branch
Scheduled(branch) == 1

\* lines 135-185: one run of audioLoop on the given branch, without its place
\* in the queue of animation frames
AudioLoopRun(branch) ==
    /\ \E level \in Levels :
          \/ branch = "playback" /\ AudioLoopPlayback(level)
          \/ branch = "armed" /\ \E freq \in {Null} \cup {Some(f) : f \in Frequencies} :
                AudioLoopArmed(level, freq)
          \/ branch = "disarmed" /\ AudioLoopDisarmed(level)
    /\ sessions' = SessionsAfterPush
    /\ UNCHANGED <<mode, isRecording, isPlayingBack, sensitivity, micBoost,
                   stateRef, recordingStartTimeRef, stopPending, timers, now,
                   buffer, sampleRate, pitch, midiCall, nameCall, runs>>

\* lines 133-186: a callback queued by requestAnimationFrame runs. Line 134
\* finds both refs set: a callback exists only after line 194, which runs after
\* lines 119-121, and nothing clears the refs.
audioLoop ==
    /\ loop.pending >= 1
    /\ loop.core
    /\ \E branch \in Branches :
          /\ AudioLoopRun(branch)
          /\ loop' = [loop EXCEPT !.pending = @ - 1 + Scheduled(branch)]
    /\ UNCHANGED variants

\* lines 87-91: the effect stores the rendered state in stateRef.current
StateRefSync ==
    /\ stateRef # Snapshot
    /\ stateRef' = Snapshot
    /\ last' = NoTick
    /\ UNCHANGED <<releasedAt, buffer, sampleRate, pitch, midiCall, nameCall, runs, loop, variants>>
    /\ UNCHANGED <<mode, isRecording, isPlayingBack, currentMidiNote, sensitivity,
                   micBoost, sessions, recordingNotesRef, recordingStartTimeRef,
                   activeNoteStartRef, stopPending, timers, sounding, now>>

----------------------------------------------------------------------------
(* src/App.tsx: handlers of the user interface *)

\* stopAllPlayback (lines 234-238) appears in the handlers that call it as
\* sounding' = <<>> (releaseAll, line 235) and isPlayingBack' = Null (line 237).

\* lines 203-209: toggleRecording while not recording
StartRecording ==
    /\ ~isRecording
    /\ Len(sessions) < MaxSessions
    /\ recordingNotesRef' = <<>>
    /\ recordingStartTimeRef' = now
    /\ isRecording' = TRUE
    /\ mode' = RECORD
    /\ last' = NoTick
    /\ UNCHANGED <<releasedAt, buffer, sampleRate, pitch, midiCall, nameCall, runs, loop, variants>>
    /\ UNCHANGED <<isPlayingBack, currentMidiNote, sensitivity, micBoost, sessions,
                   stateRef, activeNoteStartRef, stopPending, timers, sounding, now>>

\* lines 210-211: toggleRecording while recording, up to `await recorder.stop()`
StopRecordingCall ==
    /\ isRecording
    /\ ~stopPending
    /\ stopPending' = TRUE
    /\ last' = NoTick
    /\ UNCHANGED <<releasedAt, buffer, sampleRate, pitch, midiCall, nameCall, runs, loop, variants>>
    /\ UNCHANGED <<mode, isRecording, isPlayingBack, currentMidiNote, sensitivity,
                   micBoost, sessions, stateRef, recordingNotesRef,
                   recordingStartTimeRef, activeNoteStartRef, timers, sounding, now>>

\* a recorder that resolves a second stop at once: the second call runs
\* lines 212-230 while the first is still suspended
StopRecordingTwice ==
    /\ isRecording
    /\ stopPending
    /\ sessions' = <<[id |-> 1 + Len(sessions), midiNotes |-> recordingNotesRef]>> \o sessions
    /\ isRecording' = FALSE
    /\ mode' = IDLE
    /\ sounding' = <<>>
    /\ last' = [NoTick EXCEPT !.op = "stopped"]
    /\ UNCHANGED <<isPlayingBack, currentMidiNote, sensitivity, micBoost, stateRef,
                   recordingNotesRef, recordingStartTimeRef, activeNoteStartRef,
                   stopPending, timers, now, releasedAt,
                   buffer, sampleRate, pitch, midiCall, nameCall, runs, loop, variants>>

\* lines 210-211: toggleRecording while an earlier call is suspended at the await.
\* Tone.Recorder.stop() asserts that the recorder is not stopped, and the
\* MediaRecorder is inactive from the first stop() on, so the second call throws
\* at line 211 and lines 212-230 do not run for it.
StopRecordingRejected ==
    /\ isRecording
    /\ stopPending
    /\ last' = [NoTick EXCEPT !.op = "rejected"]
    /\ UNCHANGED <<mode, isRecording, isPlayingBack, currentMidiNote, sensitivity,
                   micBoost, sessions, stateRef, recordingNotesRef,
                   recordingStartTimeRef, activeNoteStartRef, stopPending, timers,
                   sounding, now, releasedAt,
                   buffer, sampleRate, pitch, midiCall, nameCall, runs, loop, variants>>

\* a flush that skips the minimum-duration filter
UnfilteredFlush ==
    IF ~IsNull(activeNoteStartRef)
    THEN Append(recordingNotesRef,
                [note |-> Val(activeNoteStartRef).note,
                 time |-> Val(activeNoteStartRef).time,
                 duration |-> now - recordingStartTimeRef - Val(activeNoteStartRef).start])
    ELSE recordingNotesRef

\* lines 214-219: the open note is flushed with the stop time as its release
FlushedNotes ==
    IF ~IsNull(activeNoteStartRef) /\ KeepNote(OpenDuration)
    THEN Append(recordingNotesRef,
                [note |-> Val(activeNoteStartRef).note,
                 time |-> Val(activeNoteStartRef).time,
                 duration |-> OpenDuration])
    ELSE recordingNotesRef

\* line 221: a session id no listed session and no playback uses
FreshId ==
    CHOOSE i \in 1..(MaxSessions + 1) :
        /\ \A k \in 1..Len(sessions) : sessions[k].id # i
        /\ IsNull(isPlayingBack) \/ Val(isPlayingBack).id # i

\* lines 212-230: toggleRecording resumed with the recorded audio
StopRecordingResume ==
    /\ stopPending
    /\ stopPending' = FALSE
    /\ recordingNotesRef' = FlushedNotes
    /\ sessions' = <<[id |-> FreshId, midiNotes |-> FlushedNotes]>> \o sessions
    /\ isRecording' = FALSE
    /\ mode' = IDLE
    /\ sounding' = <<>>
    /\ last' = [NoTick EXCEPT !.op = "stopped"]
    /\ UNCHANGED <<releasedAt, buffer, sampleRate, pitch, midiCall, nameCall, runs, loop, variants>>
    /\ UNCHANGED <<isPlayingBack, currentMidiNote, sensitivity, micBoost, stateRef,
                   recordingStartTimeRef, activeNoteStartRef, timers, now>>

\* a stop without audio that stores the session all the same
StopRecordingNoBlobSaved ==
    /\ stopPending
    /\ stopPending' = FALSE
    /\ recordingNotesRef' = FlushedNotes
    /\ sessions' = <<[id |-> FreshId, midiNotes |-> FlushedNotes]>> \o sessions
    /\ isRecording' = FALSE
    /\ mode' = IDLE
    /\ sounding' = <<>>
    /\ last' = [NoTick EXCEPT !.op = "unsaved"]
    /\ UNCHANGED <<isPlayingBack, currentMidiNote, sensitivity, micBoost, stateRef,
                   recordingStartTimeRef, activeNoteStartRef, timers, now, releasedAt,
                   buffer, sampleRate, pitch, midiCall, nameCall, runs, loop, variants>>

\* lines 211-212: toggleRecording resumed without a blob: `if (!audioBlob) return`
StopRecordingNoBlob ==
    /\ stopPending
    /\ stopPending' = FALSE
    /\ last' = [NoTick EXCEPT !.op = "unsaved"]
    /\ UNCHANGED <<mode, isRecording, isPlayingBack, currentMidiNote, sensitivity,
                   micBoost, sessions, stateRef, recordingNotesRef,
                   recordingStartTimeRef, activeNoteStartRef, timers, sounding, now,
                   releasedAt, buffer, sampleRate, pitch, midiCall, nameCall, runs,
                   loop, variants>>

\* lines 240-250: playSessionMidi; the session's notes are played by
\* triggerAttackRelease, which releases them itself
PlaySessionMidi ==
    /\ \E k \in 1..Len(sessions) :
          isPlayingBack' = Some([id |-> sessions[k].id, kind |-> "midi"])
    /\ timers < MaxTimers
    /\ timers' = timers + 1
    /\ sounding' = IF ~IsNull(isPlayingBack) THEN <<>> ELSE sounding
    /\ last' = NoTick
    /\ UNCHANGED <<releasedAt, buffer, sampleRate, pitch, midiCall, nameCall, runs, loop, variants>>
    /\ UNCHANGED <<mode, isRecording, currentMidiNote, sensitivity, micBoost, sessions,
                   stateRef, recordingNotesRef, recordingStartTimeRef,
                   activeNoteStartRef, stopPending, now>>

\* line 249: the timeout of playSessionMidi
PlaybackTimeout ==
    /\ timers > 0
    /\ timers' = timers - 1
    /\ isPlayingBack' = Null
    /\ last' = NoTick
    /\ UNCHANGED <<releasedAt, buffer, sampleRate, pitch, midiCall, nameCall, runs, loop, variants>>
    /\ UNCHANGED <<mode, isRecording, currentMidiNote, sensitivity, micBoost, sessions,
                   stateRef, recordingNotesRef, recordingStartTimeRef,
                   activeNoteStartRef, stopPending, sounding, now>>

\* lines 252-261: playSessionAudio
PlaySessionAudio ==
    /\ \E k \in 1..Len(sessions) :
          isPlayingBack' = Some([id |-> sessions[k].id, kind |-> "audio"])
    /\ sounding' = IF ~IsNull(isPlayingBack) THEN <<>> ELSE sounding
    /\ last' = NoTick
    /\ UNCHANGED <<releasedAt, buffer, sampleRate, pitch, midiCall, nameCall, runs, loop, variants>>
    /\ UNCHANGED <<mode, isRecording, currentMidiNote, sensitivity, micBoost, sessions,
                   stateRef, recordingNotesRef, recordingStartTimeRef,
                   activeNoteStartRef, stopPending, timers, now>>

\* line 258: onstop of the audio player
PlayerStopped ==
    /\ ~IsNull(isPlayingBack)
    /\ Val(isPlayingBack).kind = "audio"
    /\ isPlayingBack' = Null
    /\ last' = NoTick
    /\ UNCHANGED <<releasedAt, buffer, sampleRate, pitch, midiCall, nameCall, runs, loop, variants>>
    /\ UNCHANGED <<mode, isRecording, currentMidiNote, sensitivity, micBoost, sessions,
                   stateRef, recordingNotesRef, recordingStartTimeRef,
                   activeNoteStartRef, stopPending, timers, sounding, now>>

\* line 322: the MIDI button: setMode(MIDI); stopAllPlayback()
MidiButton ==
    /\ mode' = MIDI
    /\ sounding' = <<>>
    /\ isPlayingBack' = Null
    /\ last' = NoTick
    /\ UNCHANGED <<releasedAt, buffer, sampleRate, pitch, midiCall, nameCall, runs, loop, variants>>
    /\ UNCHANGED <<isRecording, currentMidiNote, sensitivity, micBoost, sessions,
                   stateRef, recordingNotesRef, recordingStartTimeRef,
                   activeNoteStartRef, stopPending, timers, now>>

\* lines 263-270: toggleVoiceMode
toggleVoiceMode ==
    /\ IF mode = VOICE
       THEN /\ mode' = IDLE
            /\ UNCHANGED <<sounding, isPlayingBack>>
       ELSE /\ sounding' = <<>>
            /\ isPlayingBack' = Null
            /\ mode' = VOICE
    /\ last' = NoTick
    /\ UNCHANGED <<releasedAt, buffer, sampleRate, pitch, midiCall, nameCall, runs, loop, variants>>
    /\ UNCHANGED <<isRecording, currentMidiNote, sensitivity, micBoost, sessions,
                   stateRef, recordingNotesRef, recordingStartTimeRef,
                   activeNoteStartRef, stopPending, timers, now>>

\* line 412: the sensitivity slider
SetSensitivity ==
    /\ \E v \in SensitivityValues : v # sensitivity /\ sensitivity' = v
    /\ last' = NoTick
    /\ UNCHANGED <<releasedAt, buffer, sampleRate, pitch, midiCall, nameCall, runs, loop, variants>>
    /\ UNCHANGED <<mode, isRecording, isPlayingBack, currentMidiNote, micBoost, sessions,
                   stateRef, recordingNotesRef, recordingStartTimeRef,
                   activeNoteStartRef, stopPending, timers, sounding, now>>

\* line 413: the gain slider
SetMicBoost ==
    /\ \E v \in MicBoostValues : v # micBoost /\ micBoost' = v
    /\ last' = NoTick
    /\ UNCHANGED <<releasedAt, buffer, sampleRate, pitch, midiCall, nameCall, runs, loop, variants>>
    /\ UNCHANGED <<mode, isRecording, isPlayingBack, currentMidiNote, sensitivity,
                   sessions, stateRef, recordingNotesRef, recordingStartTimeRef,
                   activeNoteStartRef, stopPending, timers, sounding, now>>

\* line 371: a session is deleted from the history
DeleteSession ==
    /\ \E k \in 1..Len(sessions) :
          sessions' = SubSeq(sessions, 1, k - 1) \o SubSeq(sessions, k + 1, Len(sessions))
    /\ last' = NoTick
    /\ UNCHANGED <<releasedAt, buffer, sampleRate, pitch, midiCall, nameCall, runs, loop, variants>>
    /\ UNCHANGED <<mode, isRecording, isPlayingBack, currentMidiNote, sensitivity,
                   micBoost, stateRef, recordingNotesRef, recordingStartTimeRef,
                   activeNoteStartRef, stopPending, timers, sounding, now>>

\* the audio clock moves on between two handlers.  Tone.now() is only ever read
\* as its distance to recordingStartTimeRef (lines 161, 170, 177, 215), which
\* toggleRecording sets when a recording starts, so the time that passes while
\* nothing is recorded changes no value the program computes and is not counted.
ClockAdvance ==
    /\ isRecording
    /\ \E d \in ClockSteps : now + d <= MaxTime /\ now' = now + d
    /\ last' = NoTick
    /\ UNCHANGED <<releasedAt, buffer, sampleRate, pitch, midiCall, nameCall, runs, loop, variants>>
    /\ UNCHANGED <<mode, isRecording, isPlayingBack, currentMidiNote, sensitivity,
                   micBoost, sessions, stateRef, recordingNotesRef,
                   recordingStartTimeRef, activeNoteStartRef, stopPending, timers,
                   sounding>>

\* one recording at a time on the audio clock, with the MIDI button
Next ==
    \/ audioLoop
    \/ StateRefSync
    \/ StartRecording
    \/ StopRecordingCall
    \/ StopRecordingRejected
    \/ StopRecordingResume
    \/ MidiButton
    \/ ClockAdvance

Spec == Init /\ [][Next]_vars

\* recording after recording on the audio clock: the history is emptied in between
NextRerecord ==
    \/ audioLoop
    \/ StateRefSync
    \/ StartRecording
    \/ StopRecordingCall
    \/ StopRecordingRejected
    \/ StopRecordingResume
    \/ DeleteSession
    \/ ClockAdvance

SpecRerecord == Init /\ [][NextRerecord]_vars

\* the tracker with every mode button and the two sliders, at one instant
NextGate ==
    \/ audioLoop
    \/ StateRefSync
    \/ StartRecording
    \/ StopRecordingCall
    \/ StopRecordingRejected
    \/ StopRecordingResume
    \/ MidiButton
    \/ toggleVoiceMode
    \/ DeleteSession
    \/ SetSensitivity
    \/ SetMicBoost

SpecGate == Init /\ [][NextGate]_vars

\* lines 12-14: the indices of buffer read by the difference function,
\* counted from 0 as in the source
SampleReads(buf) ==
    LET length == Len(buf) \div 2
    IN  UNION {{i, i + tau} : i \in 0..(length - 1), tau \in 0..(length - 1)}

\* lines 20-58: the indices of yinBuffer read or written by steps 2 to 4,
\* counted from 0 as in the source. Line 20 writes entry 0 whatever the
\* length; the loops of lines 22, 29 and 39 run over 1..length - 1; line 49
\* lets step 4 read tau - 1, tau and tau + 1 when 0 < tau < length - 1, and no
\* step 4 happens after the return of line 45.
YinBufferAccesses(buf) ==
    LET length == Len(buf) \div 2
        yinBuffer == NormalisedDifference(buf)
        found == ThresholdLag(yinBuffer)
        tau == IF found # -1 THEN found ELSE MinimumLag(yinBuffer)
        step4 == IF found = -1 /\ AboveLimit(MinVal(yinBuffer)) THEN {}
                 ELSE IF tau > 0 /\ tau < length - 1 THEN {tau - 1, tau, tau + 1}
                 ELSE {}
    IN  {0} \cup (1..(length - 1)) \cup step4

\* lines 6-61 hold no throw statement and no call that throws: an index
\* outside a Float32Array reads as undefined and writes nothing
Throws(buf) == FALSE

\* detectPitch applied to one frame
DetectPitchCall ==
    /\ ~pitch.called
    /\ pitch' = [called |-> TRUE, threw |-> Throws(buffer),
                 value |-> IF Throws(buffer) THEN Null
                           ELSE detectPitch(buffer, sampleRate)]
    /\ UNCHANGED <<mode, isRecording, isPlayingBack, currentMidiNote, sensitivity,
                   micBoost, sessions, stateRef, recordingNotesRef,
                   recordingStartTimeRef, activeNoteStartRef, stopPending, timers,
                   sounding, now, releasedAt, last, buffer, sampleRate,
                   midiCall, nameCall, runs, loop, variants>>

\* a frame and a sample rate are at hand and detectPitch has not run
InitPitch ==
    /\ mode = IDLE
    /\ isRecording = FALSE
    /\ isPlayingBack = Null
    /\ currentMidiNote = Null
    /\ sensitivity = 15
    /\ micBoost = 5
    /\ sessions = <<>>
    /\ stateRef = [mode |-> IDLE, isPlayingBack |-> FALSE,
                   lastMidi |-> Null, sensitivity |-> 15, micBoost |-> 5]
    /\ recordingNotesRef = <<>>
    /\ recordingStartTimeRef = 0
    /\ activeNoteStartRef = Null
    /\ stopPending = FALSE
    /\ timers = 0
    /\ sounding = <<>>
    /\ now = 0
    /\ releasedAt = Null
    /\ last = NoTick
    /\ buffer \in FrameInputs
    /\ sampleRate \in SampleRates
    /\ pitch = NotCalled
    /\ midiCall = NoMidiCall
    /\ nameCall = NoNameCall
    /\ runs = NoRuns
    /\ loop = StudioEntered
    /\ variants = NoVariants

NextPitch == DetectPitchCall

SpecPitch == InitPitch /\ [][NextPitch]_vars

\* arguments offered to frequencyToMidi, in Hz: a missing value, zero, negative
\* and positive frequencies
FrequencyInputs == {Null} \cup {Some(f) : f \in {-440, -1, 0, 1, 27, 262, 440, 880}}

\* line 64: a missing value is falsy and takes the same return as a frequency
\* that is not above zero
frequencyToMidiOf(arg) ==
    IF IsNull(arg) THEN 0 ELSE frequencyToMidi(Val(arg))

\* frequencyToMidi applied to its argument: it returns a number on every path
FrequencyToMidiCall ==
    /\ ~midiCall.called
    /\ midiCall' = [midiCall EXCEPT !.called = TRUE,
                                    !.returned = Some(frequencyToMidiOf(midiCall.frequency))]
    /\ UNCHANGED <<mode, isRecording, isPlayingBack, currentMidiNote, sensitivity,
                   micBoost, sessions, stateRef, recordingNotesRef,
                   recordingStartTimeRef, activeNoteStartRef, stopPending, timers,
                   sounding, now, releasedAt, last, buffer, sampleRate, pitch,
                   nameCall, runs, loop, variants>>

\* midiToNoteName applied to its argument
MidiToNoteNameCall ==
    /\ ~nameCall.called
    /\ nameCall' = [nameCall EXCEPT !.called = TRUE,
                                    !.returned = midiToNoteName(nameCall.midi)]
    /\ UNCHANGED <<mode, isRecording, isPlayingBack, currentMidiNote, sensitivity,
                   micBoost, sessions, stateRef, recordingNotesRef,
                   recordingStartTimeRef, activeNoteStartRef, stopPending, timers,
                   sounding, now, releasedAt, last, buffer, sampleRate, pitch,
                   midiCall, runs, loop, variants>>

\* an argument is at hand for each of the two conversions
InitNotes ==
    /\ mode = IDLE
    /\ isRecording = FALSE
    /\ isPlayingBack = Null
    /\ currentMidiNote = Null
    /\ sensitivity = 15
    /\ micBoost = 5
    /\ sessions = <<>>
    /\ stateRef = [mode |-> IDLE, isPlayingBack |-> FALSE,
                   lastMidi |-> Null, sensitivity |-> 15, micBoost |-> 5]
    /\ recordingNotesRef = <<>>
    /\ recordingStartTimeRef = 0
    /\ activeNoteStartRef = Null
    /\ stopPending = FALSE
    /\ timers = 0
    /\ sounding = <<>>
    /\ now = 0
    /\ releasedAt = Null
    /\ last = NoTick
    /\ buffer = <<>>
    /\ sampleRate = 0
    /\ pitch = NotCalled
    /\ \E f \in FrequencyInputs : midiCall = [NoMidiCall EXCEPT !.frequency = f]
    /\ \E m \in MidiInputs : nameCall = [NoNameCall EXCEPT !.midi = m]
    /\ runs = NoRuns
    /\ loop = StudioEntered
    /\ variants = NoVariants

NextNotes ==
    \/ FrequencyToMidiCall
    \/ MidiToNoteNameCall

SpecNotes == InitNotes /\ [][NextNotes]_vars

\* lines 135-152 in two runs of the app that have the same settings and mode
\* and are given frames of their own: each run updates its meter and decides
\* whether its gate opens
MeterTick ==
    /\ \E level1 \in Levels, level2 \in Levels :
          runs' = [r \in 1..2 |->
                      LET level == IF r = 1 THEN level1 ELSE level2
                      IN  [rmsVolume |-> Smoothed(runs[r].rmsVolume, BoostedRms(level)),
                           level |-> level,
                           armed |-> GateDecision(level, runs[r].rmsVolume)]]
    /\ UNCHANGED <<mode, isRecording, isPlayingBack, currentMidiNote, sensitivity,
                   micBoost, sessions, stateRef, recordingNotesRef,
                   recordingStartTimeRef, activeNoteStartRef, stopPending, timers,
                   sounding, now, releasedAt, last, buffer, sampleRate, pitch,
                   midiCall, nameCall, loop, variants>>

NextMeter ==
    \/ MeterTick
    \/ StateRefSync
    \/ MidiButton
    \/ toggleVoiceMode
    \/ SetSensitivity
    \/ SetMicBoost

SpecMeter == Init /\ [][NextMeter]_vars

\* lines 188-191 and 419-423: ENTER STUDIO is on the landing screen only, which
\* is rendered while neither isStarted nor isConfiguring; startSetupWizard runs
\* up to `await initAudioCore()`
EnterStudio ==
    /\ ~loop.isStarted
    /\ ~loop.isConfiguring
    /\ loop.setups < MaxSetups
    /\ loop' = [loop EXCEPT !.isConfiguring = TRUE, !.setupStep = "PERMISSION",
                            !.awaiting = TRUE, !.setups = @ + 1]
    /\ last' = NoTick
    /\ UNCHANGED <<mode, isRecording, isPlayingBack, currentMidiNote, sensitivity,
                   micBoost, sessions, stateRef, recordingNotesRef,
                   recordingStartTimeRef, activeNoteStartRef, stopPending, timers,
                   sounding, now, releasedAt, buffer, sampleRate, pitch,
                   midiCall, nameCall, runs, variants>>

\* lines 105-126 and 192-194: initAudioCore returns true, at once when synthRef
\* is set and after the microphone opened otherwise; startSetupWizard shows
\* COMPLETE and calls audioLoop, whose run asks for its successor
InitAudioCoreResolved ==
    /\ loop.awaiting
    /\ \E branch \in Branches :
          /\ AudioLoopRun(branch)
          /\ loop' = [loop EXCEPT !.awaiting = FALSE, !.core = TRUE,
                                  !.setupStep = "COMPLETE",
                                  !.pending = @ + Scheduled(branch)]
    /\ UNCHANGED variants

\* lines 127-130 and 195-198: the microphone is refused; initAudioCore returns
\* false with no ref set and the landing screen comes back
InitAudioCoreRejected ==
    /\ loop.awaiting
    /\ ~loop.core
    /\ loop' = [loop EXCEPT !.awaiting = FALSE, !.isConfiguring = FALSE]
    /\ last' = NoTick
    /\ UNCHANGED <<mode, isRecording, isPlayingBack, currentMidiNote, sensitivity,
                   micBoost, sessions, stateRef, recordingNotesRef,
                   recordingStartTimeRef, activeNoteStartRef, stopPending, timers,
                   sounding, now, releasedAt, buffer, sampleRate, pitch,
                   midiCall, nameCall, runs, variants>>

\* lines 313-314: Start Experience, shown on the setup screen at COMPLETE
StartExperience ==
    /\ loop.isConfiguring
    /\ loop.setupStep = "COMPLETE"
    /\ loop' = [loop EXCEPT !.isConfiguring = FALSE, !.isStarted = TRUE]
    /\ last' = NoTick
    /\ UNCHANGED <<mode, isRecording, isPlayingBack, currentMidiNote, sensitivity,
                   micBoost, sessions, stateRef, recordingNotesRef,
                   recordingStartTimeRef, activeNoteStartRef, stopPending, timers,
                   sounding, now, releasedAt, buffer, sampleRate, pitch,
                   midiCall, nameCall, runs, variants>>

\* lines 319 and 389: the buttons of the studio are rendered once isStarted
InStudio(handler) == loop.isStarted /\ handler

\* the app from the landing screen on
InitLoop ==
    /\ mode = IDLE
    /\ isRecording = FALSE
    /\ isPlayingBack = Null
    /\ currentMidiNote = Null
    /\ sensitivity = 15
    /\ micBoost = 5
    /\ sessions = <<>>
    /\ stateRef = [mode |-> IDLE, isPlayingBack |-> FALSE,
                   lastMidi |-> Null, sensitivity |-> 15, micBoost |-> 5]
    /\ recordingNotesRef = <<>>
    /\ recordingStartTimeRef = 0
    /\ activeNoteStartRef = Null
    /\ stopPending = FALSE
    /\ timers = 0
    /\ sounding = <<>>
    /\ now = 0
    /\ releasedAt = Null
    /\ last = NoTick
    /\ buffer = <<>>
    /\ sampleRate = 0
    /\ pitch = NotCalled
    /\ midiCall = NoMidiCall
    /\ nameCall = NoNameCall
    /\ runs = NoRuns
    /\ loop = Landing
    /\ variants = NoVariants

NextLoop ==
    \/ EnterStudio
    \/ InitAudioCoreResolved
    \/ InitAudioCoreRejected
    \/ StartExperience
    \/ audioLoop
    \/ StateRefSync
    \/ InStudio(StartRecording)
    \/ InStudio(StopRecordingCall)
    \/ InStudio(StopRecordingRejected)
    \/ InStudio(StopRecordingResume)
    \/ InStudio(MidiButton)
    \/ InStudio(PlaySessionMidi)
    \/ PlaybackTimeout

SpecLoop == InitLoop /\ [][NextLoop]_vars

\* pitch indices handed to the variants
PitchIndices == {0, 60, 62}

\* `if (midi && ...)` and `if (stateRef.current.lastMidi)` of part_000: null and
\* 0 are both falsy
Truthy(midi) == ~IsNull(midi) /\ Val(midi) # 0

\* the value stored in activeNoteStartRef when a note opens at time rel of the
\* recording: App.tsx line 171 {note, start, time}, part_001 line 190
\* {note, start, duration: 0}, part_000 line 175 {note, start}
VariantOpened(v, midi, rel) ==
    IF v = "App"
    THEN [note |-> midiToNoteName(Val(midi)), start |-> rel, time |-> rel]
    ELSE [note |-> midiToNoteName(Val(midi)), start |-> rel]

\* the RecordedNote pushed for the open note: App.tsx lines 163, 179 and 217
\* {note, time: time of the open note, duration}; part_001 lines 183, 198 and
\* 221 {...activeNoteStartRef.current, duration}, which has a start and no
\* time; part_000 lines 179-183 {note, time: start of the open note, duration}
VariantNote(v, active, duration) ==
    [note |-> active.note,
     time |-> IF v = "App" THEN Some(active.time)
              ELSE IF v = "part_001" THEN Null
              ELSE Some(active.start),
     duration |-> duration]

\* the note list after a closing path at time rel: App.tsx and part_001 keep
\* the note when it lasted MIN_NOTE_DURATION, part_000 keeps every note
VariantClosed(v, st, rel) ==
    IF IsNull(st.activeNoteStartRef) THEN st.recordingNotesRef
    ELSE LET active == Val(st.activeNoteStartRef)
             duration == rel - active.start
         IN  IF v = "part_000" \/ KeepNote(duration)
             THEN Append(st.recordingNotesRef, VariantNote(v, active, duration))
             ELSE st.recordingNotesRef

\* App.tsx lines 152-184 and part_001 lines 172-203: one run of audioLoop past
\* the playback test, in a mode that records or is idle
TickFiltered(v, st, recording, armed, midi, rel) ==
    IF armed
    THEN IF ~IsNull(midi) /\ midi # st.lastMidi
         THEN [st EXCEPT
                 !.recordingNotesRef =
                     IF ~IsNull(st.lastMidi) /\ recording
                     THEN VariantClosed(v, st, rel) ELSE @,
                 !.activeNoteStartRef =
                     IF recording THEN Some(VariantOpened(v, midi, rel)) ELSE @,
                 !.lastMidi = midi]
         ELSE st
    ELSE IF ~IsNull(st.lastMidi)
         THEN [st EXCEPT
                 !.recordingNotesRef =
                     IF recording THEN VariantClosed(v, st, rel) ELSE @,
                 !.activeNoteStartRef =
                     IF recording /\ ~IsNull(@) THEN Null ELSE @,
                 !.lastMidi = Null]
         ELSE st

\* part_000 lines 161-187: a change of pitch releases the voice and opens the
\* next note without recording the one it replaces
TickPart000(st, recording, armed, midi, rel) ==
    IF armed
    THEN IF Truthy(midi) /\ midi # st.lastMidi
         THEN [st EXCEPT
                 !.activeNoteStartRef =
                     IF recording THEN Some(VariantOpened("part_000", midi, rel)) ELSE @,
                 !.lastMidi = midi]
         ELSE st
    ELSE IF Truthy(st.lastMidi)
         THEN [st EXCEPT
                 !.recordingNotesRef =
                     IF recording THEN VariantClosed("part_000", st, rel) ELSE @,
                 !.activeNoteStartRef =
                     IF recording /\ ~IsNull(@) THEN Null ELSE @,
                 !.lastMidi = Null]
         ELSE st

VariantTick(v, st, recording, armed, midi, rel) ==
    IF v = "part_000" THEN TickPart000(st, recording, armed, midi, rel)
    ELSE TickFiltered(v, st, recording, armed, midi, rel)

\* toggleRecording while recording: App.tsx lines 214-224 and part_001 lines
\* 219-229 close the open note before the session is stored, part_000 lines
\* 201-207 store the list as it is
VariantStop(v, st, rel) ==
    LET notes == IF v = "part_000" THEN st.recordingNotesRef
                 ELSE VariantClosed(v, st, rel)
    IN  [st EXCEPT !.recordingNotesRef = notes, !.midiNotes = Some(notes)]

\* one run of audioLoop in each variant on the same frame: the gate opens only
\* in RECORD mode here, and stateRef holds what the last handler left
VariantsTick ==
    /\ \A v \in Variants : Len(variants.of[v].recordingNotesRef) < MaxNotes
    /\ \E armed \in BOOLEAN, midi \in {Null} \cup {Some(m) : m \in PitchIndices} :
          /\ armed => variants.isRecording
          /\ ~armed => IsNull(midi)
          /\ variants' = [variants EXCEPT !.of =
                [v \in Variants |->
                    VariantTick(v, variants.of[v], variants.isRecording, armed, midi,
                                variants.clock - variants.recordingStartTimeRef)]]
    /\ UNCHANGED <<mode, isRecording, isPlayingBack, currentMidiNote, sensitivity,
                   micBoost, sessions, stateRef, recordingNotesRef,
                   recordingStartTimeRef, activeNoteStartRef, stopPending, timers,
                   sounding, now, releasedAt, last, buffer, sampleRate, pitch,
                   midiCall, nameCall, runs, loop>>

\* toggleRecording while not recording, the same lines in the three variants
\* (App.tsx 204-209): the note list is emptied and the clock is read
VariantsStart ==
    /\ ~variants.isRecording
    /\ variants' = [variants EXCEPT
                      !.isRecording = TRUE,
                      !.recordingStartTimeRef = variants.clock,
                      !.of = [v \in Variants |->
                                 [variants.of[v] EXCEPT !.recordingNotesRef = <<>>]]]
    /\ UNCHANGED <<mode, isRecording, isPlayingBack, currentMidiNote, sensitivity,
                   micBoost, sessions, stateRef, recordingNotesRef,
                   recordingStartTimeRef, activeNoteStartRef, stopPending, timers,
                   sounding, now, releasedAt, last, buffer, sampleRate, pitch,
                   midiCall, nameCall, runs, loop>>

\* toggleRecording while recording, in the three variants
VariantsStop ==
    /\ variants.isRecording
    /\ variants' = [variants EXCEPT
                      !.isRecording = FALSE,
                      !.of = [v \in Variants |->
                                 VariantStop(v, variants.of[v],
                                             variants.clock - variants.recordingStartTimeRef)]]
    /\ UNCHANGED <<mode, isRecording, isPlayingBack, currentMidiNote, sensitivity,
                   micBoost, sessions, stateRef, recordingNotesRef,
                   recordingStartTimeRef, activeNoteStartRef, stopPending, timers,
                   sounding, now, releasedAt, last, buffer, sampleRate, pitch,
                   midiCall, nameCall, runs, loop>>

\* the audio clock of the variants moves on during a recording
VariantsClock ==
    /\ variants.isRecording
    /\ \E d \in ClockSteps :
          /\ variants.clock + d <= MaxTime
          /\ variants' = [variants EXCEPT !.clock = @ + d]
    /\ UNCHANGED <<mode, isRecording, isPlayingBack, currentMidiNote, sensitivity,
                   micBoost, sessions, stateRef, recordingNotesRef,
                   recordingStartTimeRef, activeNoteStartRef, stopPending, timers,
                   sounding, now, releasedAt, last, buffer, sampleRate, pitch,
                   midiCall, nameCall, runs, loop>>

NextVariants ==
    \/ VariantsTick
    \/ VariantsStart
    \/ VariantsStop
    \/ VariantsClock

SpecVariants == Init /\ [][NextVariants]_vars

\* lines 133-186 with the animation frames told apart: loop.frame is the
\* parity of the number of callbacks that ran, so that a run that changes
\* nothing else is still a step
FrameTick ==
    /\ loop.pending >= 1
    /\ loop.core
    /\ \E branch \in Branches :
          /\ AudioLoopRun(branch)
          /\ loop' = [loop EXCEPT !.pending = @ - 1 + Scheduled(branch),
                                  !.frame = 1 - @]
    /\ UNCHANGED variants

\* the tracker in the studio with the two mode buttons
NextSound ==
    \/ FrameTick
    \/ StateRefSync
    \/ MidiButton
    \/ toggleVoiceMode

\* requestAnimationFrame keeps calling audioLoop (lines 145 and 185) and React
\* runs the effect of lines 87-91 after every render
SpecSound ==
    /\ Init
    /\ [][NextSound]_vars
    /\ WF_vars(FrameTick)
    /\ WF_vars(StateRefSync)

\* frames handed to the tracker: an empty frame, two frames with a period of
\* three and of four samples, and the noisy tone
TrackFrames ==
    {<<>>,
     <<-1, -1, 0, -1, -1, 0, -1, -1>>,
     <<0, 1, 0, -1, 0, 1, 0, -1, 0, 1, 0, -1>>,
     NoisyTone}

\* pitchDetection.ts lines 56 and 60: sampleRate / betterTau in Hz, rounded
\* down in size, for a lag num / den of at least a thousandth of a sample in
\* size; the lag is taken to three decimals
Hertz(v) ==
    LET a == IF v.num < 0 THEN -v.num ELSE v.num
        b == IF v.den < 0 THEN -v.den ELSE v.den
        lag == (a \div b) * 1000 + Decimals(a % b, b, 3)
        hz == (v.rate * 1000) \div lag
    IN  IF (v.num < 0) = (v.den < 0) THEN hz ELSE -hz

\* line 153: freq = detectPitch(buffer, Tone.getContext().sampleRate)
Detected(buf, rate) ==
    LET value == detectPitch(buf, rate)
    IN  IF IsNull(value) THEN Null ELSE Some(Hertz(Val(value)))

\* lines 133-186: a run of audioLoop whose frequency is what detectPitch
\* returns for the frame at hand
TrackedTick ==
    /\ loop.pending >= 1
    /\ loop.core
    /\ \E level \in Levels :
          \/ AudioLoopPlayback(level)
          \/ AudioLoopArmed(level, Detected(buffer, sampleRate))
          \/ AudioLoopDisarmed(level)
    /\ sessions' = SessionsAfterPush
    /\ UNCHANGED <<mode, isRecording, isPlayingBack, sensitivity, micBoost,
                   stateRef, recordingStartTimeRef, stopPending, timers, now,
                   buffer, sampleRate, pitch, midiCall, nameCall, runs, loop,
                   variants>>

\* the studio with one of the frames in the analyser
InitTrack ==
    /\ mode = IDLE
    /\ isRecording = FALSE
    /\ isPlayingBack = Null
    /\ currentMidiNote = Null
    /\ sensitivity = 15
    /\ micBoost = 5
    /\ sessions = <<>>
    /\ stateRef = [mode |-> IDLE, isPlayingBack |-> FALSE,
                   lastMidi |-> Null, sensitivity |-> 15, micBoost |-> 5]
    /\ recordingNotesRef = <<>>
    /\ recordingStartTimeRef = 0
    /\ activeNoteStartRef = Null
    /\ stopPending = FALSE
    /\ timers = 0
    /\ sounding = <<>>
    /\ now = 0
    /\ releasedAt = Null
    /\ last = NoTick
    /\ buffer \in TrackFrames
    /\ sampleRate \in SampleRates
    /\ pitch = NotCalled
    /\ midiCall = NoMidiCall
    /\ nameCall = NoNameCall
    /\ runs = NoRuns
    /\ loop = StudioEntered
    /\ variants = NoVariants

NextTrack ==
    \/ TrackedTick
    \/ StateRefSync
    \/ MidiButton
    \/ toggleVoiceMode

SpecTrack == InitTrack /\ [][NextTrack]_vars

\* the history after one recording in which nothing was sung
InitPlayback ==
    /\ mode = IDLE
    /\ isRecording = FALSE
    /\ isPlayingBack = Null
    /\ currentMidiNote = Null
    /\ sensitivity = 15
    /\ micBoost = 5
    /\ sessions = <<[id |-> 1, midiNotes |-> <<>>]>>
    /\ stateRef = [mode |-> IDLE, isPlayingBack |-> FALSE,
                   lastMidi |-> Null, sensitivity |-> 15, micBoost |-> 5]
    /\ recordingNotesRef = <<>>
    /\ recordingStartTimeRef = 0
    /\ activeNoteStartRef = Null
    /\ stopPending = FALSE
    /\ timers = 0
    /\ sounding = <<>>
    /\ now = 0
    /\ releasedAt = Null
    /\ last = NoTick
    /\ buffer = <<>>
    /\ sampleRate = 0
    /\ pitch = NotCalled
    /\ midiCall = NoMidiCall
    /\ nameCall = NoNameCall
    /\ runs = NoRuns
    /\ loop = StudioEntered
    /\ variants = NoVariants

\* the tracker with the playback of recorded sessions, at one instant
NextPlayback ==
    \/ audioLoop
    \/ StateRefSync
    \/ StartRecording
    \/ StopRecordingCall
    \/ StopRecordingRejected
    \/ StopRecordingResume
    \/ MidiButton
    \/ toggleVoiceMode
    \/ DeleteSession
    \/ PlaySessionMidi
    \/ PlaybackTimeout
    \/ PlaySessionAudio
    \/ PlayerStopped

SpecPlayback == InitPlayback /\ [][NextPlayback]_vars

\* the tracker beside the playback of a recorded session
NextQuiet ==
    \/ audioLoop
    \/ StateRefSync
    \/ StartRecording
    \/ StopRecordingCall
    \/ StopRecordingRejected
    \/ StopRecordingResume
    \/ DeleteSession
    \/ PlaySessionMidi
    \/ PlaybackTimeout

SpecQuiet == InitPlayback /\ [][NextQuiet]_vars

\* one recording on the audio clock whose stop may come back without audio
NextUnsaved ==
    \/ audioLoop
    \/ StateRefSync
    \/ StartRecording
    \/ StopRecordingCall
    \/ StopRecordingRejected
    \/ StopRecordingResume
    \/ StopRecordingNoBlob
    \/ ClockAdvance

SpecUnsaved == Init /\ [][NextUnsaved]_vars

----------------------------------------------------------------------------
(* Properties *)

\* the events and the kinds of audioLoop run that `last` records
EventsOf(l) == {l.events[i] : i \in 1..Len(l.events)}
IsTick(l) == l.op \in {"playback", "armed", "disarmed"}
NameOf(midi) == midiToNoteName(Val(midi))

\* C1: at every instant at most one synthesizer note started by the tracker
\* is sounding.
C1_Monophony == Len(sounding) <= 1

\* C2: an armed tick that detects pitch p attacks p exactly once when no note
\* is held and nothing sounds, and emits nothing when p is the held note that
\* is sounding.
C2_OneAttackPerNote ==
    [][(last'.op = "armed" /\ ~IsNull(last'.midi)) =>
          /\ (IsNull(currentMidiNote) /\ sounding = <<>>) =>
                 last'.events = <<Attack(NameOf(last'.midi))>>
          /\ (currentMidiNote = last'.midi /\ sounding = <<NameOf(last'.midi)>>) =>
                 last'.events = <<>>]_vars

\* C3: the held note is released once.  A disarmed tick that finds no note
\* held releases nothing; one that finds a note held releases no other note
\* than the held one, and when it releases it the held state becomes empty.
C3_OneReleasePerNote ==
    [][last'.op = "disarmed" =>
          IF IsNull(currentMidiNote)
          THEN last'.events = <<>>
          ELSE \/ last'.events = <<>>
               \/ /\ last'.events = <<Release(NameOf(currentMidiNote))>>
                  /\ IsNull(currentMidiNote')]_vars

\* C4: a tick on which no pitch is detected while the note the tick reads as
\* held is non-null releases that note and clears the held state, whether the
\* gate is armed or not.
C4_ReleaseWithoutPitch ==
    [][(last'.op \in {"armed", "disarmed"} /\ IsNull(last'.midi)
            /\ ~IsNull(stateRef.lastMidi)) =>
          /\ last'.events = <<Release(NameOf(stateRef.lastMidi))>>
          /\ IsNull(currentMidiNote')]_vars

\* C5: once the mode has left {MIDI, RECORD} with a note still held, the
\* first tick clears the held state and attacks nothing, also while a playback
\* is flagged active; stated for the ticks that read an up-to-date stateRef.
C5_ReleaseOnModeChange ==
    [][(IsTick(last') /\ mode \in {IDLE, VOICE} /\ ~IsNull(currentMidiNote)
            /\ stateRef = Snapshot) =>
          /\ \A e \in EventsOf(last') : e.kind # "attack"
          /\ IsNull(currentMidiNote')]_vars

\* C6: an armed tick that detects a pitch p different from the held index q it
\* compares against (stateRef.current.lastMidi) releases q and then attacks p,
\* in that order and in the same tick (only the attack when q is null), and
\* the held index it writes is p.
C6_ReleaseThenAttack ==
    (last.op = "armed" /\ ~IsNull(last.midi) /\ last.midi # stateRef.lastMidi) =>
        /\ last.events =
               IF IsNull(stateRef.lastMidi)
               THEN <<[kind |-> "attack", note |-> NameOf(last.midi)]>>
               ELSE <<[kind |-> "release", note |-> NameOf(stateRef.lastMidi)],
                      [kind |-> "attack", note |-> NameOf(last.midi)]>>
        /\ currentMidiNote = last.midi

C6_Witness ==
    /\ last.events = <<Release("A4"), Attack("C4")>>
    /\ currentMidiNote = Some(60)
    /\ stateRef.lastMidi = Some(69)

\* C7: a tick attacks a note only if the gain-boosted rms of its frame is
\* strictly above the sensitivity it read and the mode it read is MIDI or
\* RECORD.
C7_GatedAttack ==
    \A e \in EventsOf(last) :
        e.kind = "attack" =>
            /\ last.rms > stateRef.sensitivity
            /\ stateRef.mode \in {MIDI, RECORD}

C7_Witness ==
    /\ \E e \in EventsOf(last) : e.kind = "attack"
    /\ stateRef.mode = RECORD
    /\ stateRef.sensitivity = 10
    /\ last.rms = 15

\* C8: a tick that reads mode RECORD and releases while a note is open appends
\* that note to the note list if and only if its duration is at least
\* MIN_NOTE_DURATION, on the pitch-change path and on the disarm path alike;
\* every other tick leaves the list as it was.
C8_MinimumDuration ==
    [][IsTick(last') =>
          IF /\ stateRef.mode = RECORD
             /\ ~IsNull(activeNoteStartRef)
             /\ \E e \in EventsOf(last') : e.kind = "release"
          THEN LET d == now - recordingStartTimeRef - Val(activeNoteStartRef).start
               IN  recordingNotesRef' =
                       IF d >= MIN_NOTE_DURATION
                       THEN Append(recordingNotesRef,
                                   [note |-> Val(activeNoteStartRef).note,
                                    time |-> Val(activeNoteStartRef).time,
                                    duration |-> d])
                       ELSE recordingNotesRef
          ELSE recordingNotesRef' = recordingNotesRef]_vars

C8_Witness ==
    /\ last.closed = Some([duration |-> 3, pushed |-> FALSE])
    /\ \E i \in 1..Len(recordingNotesRef) : recordingNotesRef[i].duration = 5

\* C9: when a recording starts, the note list is empty and no note is open.
C9_FreshRecording ==
    [][(~isRecording /\ isRecording') =>
          /\ recordingNotesRef' = <<>>
          /\ IsNull(activeNoteStartRef')]_vars

\* C10: while recording, a held note is the open note of the recording.
C10_HeldNoteIsOpen ==
    (isRecording /\ ~IsNull(currentMidiNote)) =>
        /\ ~IsNull(activeNoteStartRef)
        /\ Val(activeNoteStartRef).note = NameOf(currentMidiNote)

\* C11: every note appended to the note list has the offset of its attack as
\* time and, as duration, the time from that attack to the release of its
\* voice, or to the stop when the voice was never released.
C11_TrueSpan ==
    [][Len(recordingNotesRef') = Len(recordingNotesRef) + 1 =>
          LET n == recordingNotesRef'[Len(recordingNotesRef')]
              ended == IF IsNull(releasedAt) THEN now ELSE Val(releasedAt)
          IN  /\ n.note = Val(activeNoteStartRef).note
              /\ n.time = Val(activeNoteStartRef).start
              /\ n.duration = ended - recordingStartTimeRef - n.time]_vars

\* C12: a stop that finds a note open appends it once, with duration
\* stop time - recordingStartTime - startOffset, if and only if that duration
\* is at least MIN_NOTE_DURATION, and the session the stop produces holds the
\* note list with that note.
C12_FlushOnStop ==
    [][(stopPending /\ ~stopPending') =>
          /\ Len(sessions') = Len(sessions) + 1
          /\ sessions'[1].midiNotes = recordingNotesRef'
          /\ IF IsNull(activeNoteStartRef)
             THEN recordingNotesRef' = recordingNotesRef
             ELSE LET d == now - recordingStartTimeRef - Val(activeNoteStartRef).start
                      n == [note |-> Val(activeNoteStartRef).note,
                            time |-> Val(activeNoteStartRef).time,
                            duration |-> d]
                  IN  IF d >= MIN_NOTE_DURATION
                      THEN /\ recordingNotesRef' = Append(recordingNotesRef, n)
                           /\ \A i \in 1..Len(recordingNotesRef) : recordingNotesRef[i] # n
                      ELSE recordingNotesRef' = recordingNotesRef]_vars

C12_Witness ==
    /\ last.op = "stopped"
    /\ ~IsNull(activeNoteStartRef)
    /\ Val(activeNoteStartRef).start = 3
    /\ ~IsNull(currentMidiNote)
    /\ sessions[1].midiNotes =
           <<[note |-> Val(activeNoteStartRef).note, time |-> 3, duration |-> 5]>>

C14_OneSessionPerRecording ==
    [][Len(sessions') > Len(sessions) =>
          /\ Len(sessions') = Len(sessions) + 1
          /\ isRecording /\ ~isRecording'
          /\ stopPending /\ ~stopPending']_vars

C14_Witness ==
    /\ last.op = "rejected"
    /\ isRecording
    /\ stopPending
    /\ sessions = <<>>
    /\ ~IsNull(activeNoteStartRef)

\* C15: once a stop has flushed the open note and ended the recording, no tick
\* appends to the note list any more, so the open note is appended at most once.
C15_NoAppendAfterStop ==
    [][(IsTick(last') /\ ~isRecording) =>
          recordingNotesRef' = recordingNotesRef]_vars

\* C16: the held index a tick compares against, stateRef.current.lastMidi, is
\* the index of the last attack not yet followed by its release, which is the
\* value the ticks write with setCurrentMidiNote.
C16_LastMidiIsHeld ==
    [][last'.op \in {"armed", "disarmed"} =>
          stateRef.lastMidi = currentMidiNote]_vars

\* C17: the notes of a session are in performance order and do not overlap:
\* an entry ends no later than the next entry begins.
C17_PerformanceOrder ==
    \A k \in 1..Len(sessions) :
        LET notes == sessions[k].midiNotes
        IN  \A i \in 1..(Len(notes) - 1) :
                /\ notes[i].time <= notes[i + 1].time
                /\ notes[i].time + notes[i].duration <= notes[i + 1].time

C17_Witness ==
    /\ Len(sessions) = 1
    /\ Len(sessions[1].midiNotes) = 2
    /\ sessions[1].midiNotes[1].note # sessions[1].midiNotes[2].note
    /\ sessions[1].midiNotes[2].time = 5

----------------------------------------------------------------------------
(* detectPitch *)

\* the frequency detectPitch returned is a finite number above zero: it is
\* rate / (num / den), infinite when num is 0 and negative when num and den
\* differ in sign
PositiveFrequency(v) == (v.num > 0 /\ v.den > 0) \/ (v.num < 0 /\ v.den < 0)
AllZero(buf) == \A i \in 1..Len(buf) : buf[i] = 0

\* C18: for a frame of four or more samples that are all zero, detectPitch
\* returns null.
C18_SilentFrame ==
    (pitch.called /\ Len(buffer) >= 4 /\ AllZero(buffer)) => pitch.value = Null

\* C19: a value returned by detectPitch is a finite frequency above zero.
C19_PositiveFrequency ==
    (pitch.called /\ ~IsNull(pitch.value)) => PositiveFrequency(Val(pitch.value))

\* d'(tau) of the frame as the fraction num / den: tau * d(tau) over the sum of
\* d(1) .. d(tau), the sum replaced by 1 when it is 0
DPrime(buf, tau) ==
    [num |-> tau * Difference(buf, tau), den |-> OrOne(RunningSum(buf, tau))]
Lags(buf) == 1..((Len(buf) \div 2) - 1)
FractionLess(a, b) == a.num * b.den < b.num * a.den
\* the lags at which d' takes its least value over tau >= 1
GlobalMinima(buf) ==
    {t \in Lags(buf) : \A u \in Lags(buf) : ~FractionLess(DPrime(buf, u), DPrime(buf, t))}

\* C20: detectPitch selects the smallest lag tau >= 1 with d'(tau) < 0.15; when
\* there is none it selects the lag of the global minimum of d' over tau >= 1,
\* and it returns null exactly when that minimum is above 0.4, so that a
\* minimum of exactly 0.4 is accepted.
C20_LagSelection ==
    (pitch.called /\ Lags(buffer) # {}) =>
        LET under == {t \in Lags(buffer) :
                         FractionLess(DPrime(buffer, t), [num |-> 15, den |-> 100])}
        IN  IF under # {}
            THEN /\ ~IsNull(pitch.value)
                 /\ Val(pitch.value).tau = Least(under)
            ELSE LET m == DPrime(buffer, Least(GlobalMinima(buffer)))
                 IN  IF FractionLess([num |-> 4, den |-> 10], m)
                     THEN IsNull(pitch.value)
                     ELSE /\ ~IsNull(pitch.value)
                          /\ Val(pitch.value).tau \in GlobalMinima(buffer)

\* 2 * cos(2 * pi / p) for the periods p at which it is an integer
TwiceCosine == [p \in {3, 4, 6} |-> CASE p = 3 -> -1 [] p = 4 -> 0 [] p = 6 -> 1]

\* buf holds the samples a * sin(2 * pi * i / p + phase) of a pure tone of
\* period p: a sequence is one exactly when it is not all zero and each sample
\* is 2 * cos(2 * pi / p) times the one before it minus the one before that
PureTone(buf, p) ==
    /\ ~AllZero(buf)
    /\ \A i \in 1..(Len(buf) - 2) : buf[i + 2] = TwiceCosine[p] * buf[i + 1] - buf[i]

Abs(x) == IF x < 0 THEN -x ELSE x

\* rate / (num / den) is within 1% of rate / p
WithinOnePercent(v, p) ==
    /\ PositiveFrequency(v)
    /\ Abs(p * v.den - v.num) <= Abs(v.num) \div 100

\* C21: for a frame that holds a pure tone of period p = sr / f samples and has
\* N >= 2p samples, N = 2p included, detectPitch returns a frequency within 1%
\* of f.
C21_PureTone ==
    \A p \in DOMAIN TwiceCosine :
        (pitch.called /\ Len(buffer) >= 2 * p /\ PureTone(buffer, p)) =>
            /\ ~IsNull(pitch.value)
            /\ WithinOnePercent(Val(pitch.value), p)

\* C22: called with a frame of fewer than four samples, the empty frame
\* included, detectPitch fails with a precondition violation and returns
\* neither a value nor null.
C22_ShortFrameFails ==
    (pitch.called /\ Len(buffer) < 4) => pitch.threw

\* C26: a lag chosen by the global-minimum fallback goes through the same
\* parabolic interpolation as a lag chosen by the 0.15 threshold: on either
\* path the lag of the result is tau + (s2 - s0) / (2 * (2 * s1 - s2 - s0)) for
\* s0, s1, s2 = d'(tau - 1), d'(tau), d'(tau + 1) when tau is not the last lag
\* and the divisor is not zero, and tau otherwise.
C26_SameRefinement ==
    (pitch.called /\ ~IsNull(pitch.value)) =>
        LET v == Val(pitch.value)
            y == NormalisedDifference(buffer)
            inner == v.tau < (Len(buffer) \div 2) - 1
            d == IF inner THEN 2 * (2 * y[v.tau] - y[v.tau + 1] - y[v.tau - 1]) ELSE 0
        IN  IF d # 0
            THEN v.num = v.tau * d + (y[v.tau + 1] - y[v.tau - 1]) /\ v.den = d
            ELSE v.num = v.tau /\ v.den = 1

\* the fallback chose a lag and the interpolation moved it
C26_Witness ==
    /\ pitch.called
    /\ ~IsNull(pitch.value)
    /\ Val(pitch.value).path = "fallback"
    /\ Val(pitch.value).interpolated
    /\ Val(pitch.value).num # Val(pitch.value).tau * Val(pitch.value).den

\* C29: the lag from which detectPitch computes its result lies strictly
\* between tau - 1 and tau + 1: it is tau itself when tau is the last lag or
\* the divisor is zero, and otherwise the interpolated value num / den, which
\* is within one sample of tau.
C29_LagWithinOneSample ==
    (pitch.called /\ ~IsNull(pitch.value)) =>
        LET v == Val(pitch.value)
        IN  /\ ~v.interpolated => (v.num = v.tau /\ v.den = 1)
            /\ Abs(v.num - v.tau * v.den) < Abs(v.den)

\* C30: for every frame length N >= 0, every sample index read by the
\* difference function is below N, and every index into yinBuffer used by
\* steps 2 to 4 (tau - 1, tau and tau + 1 included) lies in 0..floor(N/2) - 1.
C30_IndicesInRange ==
    pitch.called =>
        /\ SampleReads(buffer) \subseteq 0..(Len(buffer) - 1)
        /\ YinBufferAccesses(buffer) \subseteq 0..((Len(buffer) \div 2) - 1)

\* C27: once the audio core is started exactly one run of audioLoop is due at
\* any time: every run, on the playback, armed and disarmed branches alike,
\* asks for exactly one successor, and going through the setup a second time
\* starts no second loop.
C27_OneLoop ==
    /\ loop.core => loop.pending = 1
    /\ ~loop.core => loop.pending = 0

\* the setup ran twice, the studio is open and a run on the playback branch
\* has just asked for its successor
C27_Witness ==
    /\ loop.setups = 2
    /\ loop.isStarted
    /\ last.op = "playback"
    /\ loop.pending = 1

\* C28: the variants of the driver loop in src/App.tsx, src/unnamed/part_001
\* and src/unnamed/part_000 follow one policy: given the same ticks and the
\* same starts and stops of the recording, they hold the same list of
\* RecordedNote {note, time, duration} and store the same list in the session.
C28_VariantsAgree ==
    \A v \in Variants, w \in Variants :
        /\ variants.of[v].recordingNotesRef = variants.of[w].recordingNotesRef
        /\ variants.of[v].midiNotes = variants.of[w].midiNotes

----------------------------------------------------------------------------
(* frequencyToMidi and midiToNoteName *)

\* C23: frequencyToMidi given a frequency that is zero or below, or a missing
\* value, yields no result: it never returns a pitch index such as 0.
C23_NoIndexForInvalidFrequency ==
    (midiCall.called /\ (IsNull(midiCall.frequency) \/ Val(midiCall.frequency) <= 0))
        => IsNull(midiCall.returned)

PitchClasses == <<"C", "C#", "D", "D#", "E", "F", "F#", "G", "G#", "A", "A#", "B">>

\* C24: for every integer pitch index m, negative ones included,
\* midiToNoteName(m) is the pitch class at position ((m % 12) + 12) % 12 of
\* C, C#, D, ..., B followed by the octave number floor(m / 12) - 1: with
\* m = 12 * q + r and 0 <= r < 12 it is class r followed by q - 1.  69 gives
\* A4, 60 gives C4 and -1 gives B-2.
C24_NoteName ==
    nameCall.called =>
        /\ \E q \in (-MaxMidi)..MaxMidi, r \in 0..11 :
              /\ nameCall.midi = 12 * q + r
              /\ nameCall.returned = PitchClasses[r + 1] \o ToString(q - 1)
        /\ nameCall.midi = 69 => nameCall.returned = "A4"
        /\ nameCall.midi = 60 => nameCall.returned = "C4"
        /\ nameCall.midi = -1 => nameCall.returned = "B-2"

\* midiToNoteName has named a negative index
C24_Witness ==
    /\ nameCall.called
    /\ nameCall.midi = -1
    /\ nameCall.returned = "B-2"

----------------------------------------------------------------------------
(* the gate and the meter *)

\* C25: the gate decision of a tick depends only on that tick's frame, gain,
\* sensitivity and mode: two runs that differ only in the amplitudes of
\* earlier frames, and so in rmsVolume, decide alike on a tick that gives
\* them the same frame.
C25_GateIgnoresMeter ==
    runs[1].level = runs[2].level => runs[1].armed = runs[2].armed

\* the two runs came to the same frame with different meter values, and the
\* gate opened
C25_Witness ==
    /\ runs[1].level = runs[2].level
    /\ runs[1].rmsVolume # runs[2].rmsVolume
    /\ runs[1].armed
    /\ runs[2].armed

\* C31: while a recording is active (isRecording true, from its start until
\* the stop completes) the operating mode is RECORD: no action of the user
\* leaves isRecording true with another mode.
C31_RecordingMeansRecordMode ==
    isRecording => mode = RECORD

\* the labels of the voices the tracker can start
VoiceLabels == {midiToNoteName(frequencyToMidi(f)) : f \in Frequencies}
Sounds(label) == \E k \in 1..Len(sounding) : sounding[k] = label

\* C32: every triggerAttack of a note is eventually followed by a
\* triggerRelease of the same note or by a releaseAll, provided the gate
\* eventually stays disarmed and ticks keep running: no voice sounds forever.
C32_VoicesReleased ==
    (<>[](last.op # "armed")) =>
        \A label \in VoiceLabels : (Sounds(label) ~> ~Sounds(label))

\* the run of audioLoop that led to this state called triggerAttack
Attacked == IsTick(last) /\ \E e \in EventsOf(last) : e.kind = "attack"

\* C33: audioLoop calls triggerAttack on no tick where detectPitch returned
\* null or a frequency that is not a finite number above zero; in particular
\* it never attacks pitch index 0 in place of an invalid frequency.
C33_NoAttackWithoutPitch ==
    Attacked =>
        /\ ~IsNull(Detected(buffer, sampleRate))
        /\ Val(Detected(buffer, sampleRate)) > 0
        /\ last.midi # Some(0)

\* C34: a run of audioLoop that finds stateRef.current.isPlayingBack true
\* calls neither triggerAttack nor triggerRelease and leaves the held index,
\* the open note and the recorded notes as they are; it asks for its
\* successor and does nothing else.
C34_PlaybackTickIsQuiet ==
    [][(IsTick(last') /\ stateRef.isPlayingBack) =>
          /\ last'.op = "playback"
          /\ last'.events = <<>>
          /\ UNCHANGED <<currentMidiNote, activeNoteStartRef, recordingNotesRef,
                         sounding, sessions>>
          /\ loop'.pending = loop.pending]_vars

\* a run during playback has just ended while an index is held and its voice
\* sounds
C34_Witness ==
    /\ last.op = "playback"
    /\ stateRef.isPlayingBack
    /\ ~IsNull(currentMidiNote)
    /\ ~IsNull(activeNoteStartRef)
    /\ sounding # <<>>

\* C35: isPlayingBack is non-null exactly while the playback started last is
\* in progress: the timer set by an earlier playSessionMidi never clears the
\* flag of a playback started later, so the tracker is not switched on again
\* in the middle of a playback.  Only playSessionMidi sets a timer, so a timer
\* that clears the flag of an audio playback was set by an earlier playback.
C35_TimerClearsOwnPlayback ==
    [][(timers' < timers /\ ~IsNull(isPlayingBack)) =>
          Val(isPlayingBack).kind = "midi"]_vars

\* C36: when recorder.stop() yields no audio blob as a recording is stopped,
\* toggleRecording appends no session and leaves isRecording, the mode, the
\* note list and the open note as they are: the recording stays active.
C36_NoBlobNoSession ==
    [][(stopPending /\ last'.op = "unsaved") =>
          /\ UNCHANGED <<sessions, isRecording, mode, recordingNotesRef,
                         activeNoteStartRef>>
          /\ isRecording']_vars

\* a stop has come back without audio while a note was recorded and another
\* is open
C36_Witness ==
    /\ last.op = "unsaved"
    /\ isRecording
    /\ mode = RECORD
    /\ recordingNotesRef # <<>>
    /\ ~IsNull(activeNoteStartRef)

\* C37: midiToNoteName is injective on integer pitch indices: two different
\* indices never get the same label, so the triggerRelease issued for the held
\* index names the very voice its triggerAttack started.
C37_LabelsAreDistinct ==
    nameCall.called =>
        \A m \in MidiInputs :
            m # nameCall.midi => midiToNoteName(m) # nameCall.returned

\* index 0 has been named, an octave under index 12 of the same pitch class
C37_Witness ==
    /\ nameCall.called
    /\ nameCall.midi = 0
    /\ nameCall.returned = "C-1"
    /\ midiToNoteName(12) = "C0"

====
